---- MODULE Spec2Model ----
EXTENDS Integers, Sequences, FiniteSets, TLC

(***************************************************************************)
(* Model of the dependency reconciliation core of electrode-native:        *)
(*   - syncCauldronContainer (ern-orchestrator), the transactional         *)
(*     reconcile-and-publish workflow against the Cauldron store;          *)
(*   - MiniApp.addDependency and MiniApp.upgradeToPlatformVersion          *)
(*     (ern-core).                                                         *)
(***************************************************************************)

VARIABLES
    \* ---- syncCauldronContainer and the Cauldron store
    pc,              \* position of the workflow in syncCauldronContainer
    args,            \* arguments of the current invocation
    cauldron,        \* TRUE once `cauldron = await getActiveCauldron()` assigned
    persisted,       \* durable content of the Cauldron store
    working,         \* working copy of the store (buffer of the open transaction)
    txOwner,         \* "none" | "self" | "other": who holds the open transaction
    beforeBegin,     \* persisted content when the run reached beginTransaction
    newVersion,      \* cauldronContainerNewVersion
    composite,       \* compositeNativeDeps.resolved of the generated composite
    current,         \* cauldronNativeDependencies read at line 166
    handed,          \* list handed to syncContainerNativeDependencies
    calls,           \* calls made by the current run, in order
    thrown,          \* error caught by the catch block ("none" if none)
    rethrown,        \* error the invocation ended with ("none" if none)
    runs,            \* number of invocations started
    published,       \* containerVersion handed to runContainerPublishers
    \* ---- MiniApp.addDependency
    manifestNative,  \* manifest: native dependencies, basePath -> version
    manifestJs,      \* manifest: JS dependencies, basePath -> version
    staged,          \* yarn.add calls made in the mini-app directory, in order
    tmpDirs,         \* temporary directories created and still on disk
    cwd,             \* process working directory
    last,            \* record of the last addDependency call and its outcome
    ops,             \* number of addDependency calls made
    \* ---- MiniApp.upgradeToPlatformVersion
    packageJson,     \* this.packageJson (in memory)
    diskPackageJson, \* package.json on disk
    installs,        \* number of `yarn install` runs
    upg,             \* record of the last upgradeToPlatformVersion call
    upgrades         \* number of upgradeToPlatformVersion calls made

syncVars == <<pc, args, cauldron, persisted, working, txOwner, beforeBegin,
              newVersion, composite, current, handed, calls, thrown, rethrown, runs,
              published>>
addVars == <<manifestNative, manifestJs, staged, tmpDirs, cwd, last, ops>>
upgVars == <<packageJson, diskPackageJson, installs, upg, upgrades>>
vars == <<syncVars, addVars, upgVars>>

----------------------------------------------------------------------------
\* Bounds of the model

MaxResolved == 2
MaxRuns == 1

----------------------------------------------------------------------------
\* Generic helpers

Range(s) == {s[i] : i \in 1..Len(s)}

SeqsUpTo(S, n) == UNION {[1..k -> S] : k \in 0..n}

\* _.filter on a list
RECURSIVE FilterSeq(_, _)
FilterSeq(s, keep) ==
    IF s = <<>> THEN <<>>
    ELSE (IF Head(s) \in keep THEN <<Head(s)>> ELSE <<>>) \o FilterSeq(Tail(s), keep)

UniqueByBasePath(s) ==
    \A i, j \in 1..Len(s) : s[i].basePath = s[j].basePath => i = j

----------------------------------------------------------------------------
\* Cauldron store and syncCauldronContainer

NoVersion == <<>>

ContainerBasePaths == {"A", "B", "C"}
\* A and C are known at one version, B at two (B and its bumped B')
ContainerDepVersions(basePath) == IF basePath = "B" THEN {"1", "2"} ELSE {"1"}
NativeDeps ==
    {d \in [basePath : ContainerBasePaths, version : {"1", "2"}] :
        d.version \in ContainerDepVersions(d.basePath)}

\* lodash differenceBy(array, values, 'basePath'): the elements of `array`
\* whose basePath is the basePath of no element of `values`, in order
DifferenceByBasePath(array, values) ==
    FilterSeq(array, {x \in Range(array) :
                        \A v \in Range(values) : v.basePath # x.basePath})

\* lines 174-182: extra Cauldron dependencies first, then the Composite's
MergeWithoutDifference(cauldronNativeDependencies, resolved) ==
    cauldronNativeDependencies \o resolved
MergeKeepingStored(cauldronNativeDependencies, resolved) ==
    cauldronNativeDependencies
        \o DifferenceByBasePath(resolved, cauldronNativeDependencies)
MergeNativeDependencies(cauldronNativeDependencies, resolved) ==
    DifferenceByBasePath(cauldronNativeDependencies, resolved) \o resolved

\* A container version major.minor.patch[-prerelease] is the tuple
\* <<major, minor, patch, prerelease>>; "" stands for no prerelease tag.
Release == ""

\* semver.inc(v, 'patch'): a release version gets the next patch number; a
\* prerelease version becomes the release of the same major.minor.patch
SemverIncPatch(v) ==
    IF v[4] = Release THEN <<v[1], v[2], v[3] + 1, Release>>
    ELSE <<v[1], v[2], v[3], Release>>

DefaultContainerVersion == <<1, 0, 0, Release>>

CurrentErnVersion == <<0, 1, 0>>

InitialErnVersion == <<0, 0, 9>>
PinnedVersion == <<3, 0, 0, Release>>

\* the store's record of one native application version; its dependency
\* list holds one entry per basePath
StoreRecords ==
    [nativeDeps : {l \in SeqsUpTo(NativeDeps, Cardinality(ContainerBasePaths)) :
                        UniqueByBasePath(l)},
     containerVersion : {DefaultContainerVersion},
     topLevelContainerVersion : {DefaultContainerVersion},
     detachContainerVersionFromRoot : {FALSE},
     ernVersion : {InitialErnVersion},
     yarnLock : {0},
     stateRev : {0}]

\* a prerelease container version, as a pinned containerVersion can record
PrereleaseVersion == <<1, 0, 1, "beta">>

\* store records that differ in what the store holds as container version:
\* none yet or a release at top level, none yet or a prerelease for the
\* application version, which is detached from the root or not
VersionedStoreRecords ==
    [nativeDeps : {<<>>},
     containerVersion : {NoVersion, PrereleaseVersion},
     topLevelContainerVersion : {NoVersion, DefaultContainerVersion},
     detachContainerVersionFromRoot : BOOLEAN,
     ernVersion : {InitialErnVersion},
     yarnLock : {0},
     stateRev : {0}]

NoArgs == [hasPlatform |-> TRUE, containerVersion |-> NoVersion]
SyncArgs == [hasPlatform : BOOLEAN, containerVersion : {NoVersion, PinnedVersion}]

\* A mutation issued on the store: buffered in the working copy while a
\* transaction is open, written through to durable storage otherwise.
StoreWrite(next) ==
    /\ working' = next
    /\ persisted' = IF txOwner = "none" THEN next ELSE persisted

\* A step of the try block throws `e`: control moves to the catch block.
Throw(call) ==
    /\ calls' = Append(calls, call)
    /\ thrown' = call
    /\ pc' = "catch"

Called(call, nextPc) ==
    /\ calls' = Append(calls, call)
    /\ pc' = nextPc

\* lines 94-110: entry of syncCauldronContainer
Invoke ==
    /\ pc = "idle"
    /\ runs < MaxRuns
    /\ \E a \in SyncArgs :
        /\ args' = a
        /\ runs' = runs + 1
        /\ calls' = <<>>
        /\ thrown' = "none"
        /\ cauldron' = FALSE
        /\ composite' = <<>>
        /\ current' = <<>>
        /\ handed' = <<>>
        /\ newVersion' = NoVersion
        /\ beforeBegin' = persisted
        /\ published' = NoVersion
        /\ IF a.hasPlatform
             THEN pc' = "getActiveCauldron" /\ rethrown' = "none"
             ELSE pc' = "failed" /\ rethrown' = "noPlatform"
    /\ UNCHANGED <<persisted, working, txOwner>>
    /\ UNCHANGED <<addVars, upgVars>>

\* line 114
GetActiveCauldron ==
    /\ pc = "getActiveCauldron"
    /\ \/ /\ cauldron' = TRUE
          /\ Called("getActiveCauldron", "setVersion")
          /\ UNCHANGED thrown
       \/ /\ Throw("getActiveCauldron")
          /\ UNCHANGED cauldron
    /\ UNCHANGED <<args, persisted, working, txOwner, beforeBegin, newVersion,
                   composite, current, handed, rethrown, runs>>
    /\ UNCHANGED <<published, addVars, upgVars>>

\* lines 119-137: the new Container version
NewContainerVersionFromTopLevel(containerVersion, store) ==
    IF containerVersion # NoVersion THEN containerVersion
    ELSE IF store.topLevelContainerVersion # NoVersion
           THEN SemverIncPatch(store.topLevelContainerVersion)
           ELSE DefaultContainerVersion
NewContainerVersion(containerVersion, store) ==
    IF containerVersion # NoVersion THEN containerVersion
    ELSE LET cur == IF store.detachContainerVersionFromRoot
                      THEN store.containerVersion
                      ELSE store.topLevelContainerVersion
         IN  IF cur # NoVersion THEN SemverIncPatch(cur) ELSE DefaultContainerVersion

SetContainerVersion ==
    /\ pc = "setVersion"
    /\ \/ /\ newVersion' = NewContainerVersion(args.containerVersion, working)
          /\ Called("setVersion", "beginTransaction")
          /\ UNCHANGED thrown
       \/ /\ args.containerVersion = NoVersion
          /\ Throw("getDescriptor")
          /\ UNCHANGED newVersion
    /\ UNCHANGED <<args, cauldron, persisted, working, txOwner, beforeBegin,
                   composite, current, handed, rethrown, runs>>
    /\ UNCHANGED <<published, addVars, upgVars>>

BeginTransactionSkipped ==
    /\ pc = "beginTransaction"
    /\ beforeBegin' = persisted
    /\ Called("beginTransaction", "stateUpdateFunc")
    /\ UNCHANGED <<args, cauldron, persisted, working, txOwner, newVersion,
                   composite, current, handed, thrown, rethrown, runs>>
    /\ UNCHANGED <<published, addVars, upgVars>>

\* line 140
BeginTransaction ==
    /\ pc = "beginTransaction"
    /\ beforeBegin' = persisted
    /\ \/ /\ txOwner = "none"
          /\ txOwner' = "self"
          /\ working' = persisted
          /\ Called("beginTransaction", "stateUpdateFunc")
          /\ UNCHANGED thrown
       \/ /\ txOwner # "none"      \* a transaction is already in progress
          /\ Throw("beginTransaction")
          /\ UNCHANGED <<txOwner, working>>
    /\ UNCHANGED <<args, cauldron, persisted, newVersion, composite, current,
                   handed, rethrown, runs>>
    /\ UNCHANGED <<published, addVars, upgVars>>

\* line 143: the caller's state change, issued on the store
StateUpdate ==
    /\ pc = "stateUpdateFunc"
    /\ \/ /\ StoreWrite([working EXCEPT !.stateRev = runs])
          /\ Called("stateUpdateFunc", "compositeGen")
          /\ UNCHANGED thrown
       \/ /\ Throw("stateUpdateFunc")
          /\ UNCHANGED <<working, persisted>>
    /\ UNCHANGED <<args, cauldron, txOwner, beforeBegin, newVersion, composite,
                   current, handed, rethrown, runs>>
    /\ UNCHANGED <<published, addVars, upgVars>>

\* lines 148-160: the Composite; its resolved native dependencies are what
\* getResolvedNativeDependencies (line 169) will report
ResolvedLists == SeqsUpTo(NativeDeps, MaxResolved)

GenerateComposite ==
    /\ pc = "compositeGen"
    /\ \/ /\ \E resolved \in ResolvedLists :
                composite' = resolved
          /\ Called("runCauldronCompositeGen", "syncDeps")
          /\ UNCHANGED thrown
       \/ /\ \E f \in {"getCompositeGeneratorConfig", "runCauldronCompositeGen"} :
                Throw(f)
          /\ UNCHANGED composite
    /\ UNCHANGED <<args, cauldron, persisted, working, txOwner, beforeBegin,
                   newVersion, current, handed, rethrown, runs>>
    /\ UNCHANGED <<published, addVars, upgVars>>

\* lines 166-186
SyncNativeDependencies ==
    /\ pc = "syncDeps"
    /\ \/ /\ current' = working.nativeDeps
          /\ handed' = MergeNativeDependencies(working.nativeDeps, composite)
          /\ StoreWrite([working EXCEPT !.nativeDeps =
                            MergeNativeDependencies(working.nativeDeps, composite)])
          /\ Called("syncContainerNativeDependencies", "containerGen")
          /\ UNCHANGED thrown
       \/ /\ \E f \in {"getNativeDependencies", "getResolvedNativeDependencies",
                        "syncContainerNativeDependencies"} : Throw(f)
          /\ UNCHANGED <<current, handed, working, persisted>>
    /\ UNCHANGED <<args, cauldron, txOwner, beforeBegin, newVersion, composite,
                   rethrown, runs>>
    /\ UNCHANGED <<published, addVars, upgVars>>

\* lines 189-193
GenerateContainer ==
    /\ pc = "containerGen"
    /\ \/ /\ Called("runCauldronContainerGen", "updateContainerVersion")
          /\ UNCHANGED thrown
       \/ Throw("runCauldronContainerGen")
    /\ UNCHANGED <<args, cauldron, persisted, working, txOwner, beforeBegin,
                   newVersion, composite, current, handed, rethrown, runs>>
    /\ UNCHANGED <<published, addVars, upgVars>>

\* lines 196-199
UpdateContainerVersion ==
    /\ pc = "updateContainerVersion"
    /\ \/ /\ StoreWrite([working EXCEPT
                !.containerVersion = newVersion,
                !.topLevelContainerVersion =
                    IF working.detachContainerVersionFromRoot
                      THEN @ ELSE newVersion])
          /\ Called("updateContainerVersion", "updateContainerErnVersion")
          /\ UNCHANGED thrown
       \/ /\ Throw("updateContainerVersion")
          /\ UNCHANGED <<working, persisted>>
    /\ UNCHANGED <<args, cauldron, txOwner, beforeBegin, newVersion, composite,
                   current, handed, rethrown, runs>>
    /\ UNCHANGED <<published, addVars, upgVars>>

\* lines 202-205
UpdateContainerErnVersion ==
    /\ pc = "updateContainerErnVersion"
    /\ \/ /\ StoreWrite([working EXCEPT !.ernVersion = CurrentErnVersion])
          /\ Called("updateContainerErnVersion", "addOrUpdateYarnLock")
          /\ UNCHANGED thrown
       \/ /\ Throw("updateContainerErnVersion")
          /\ UNCHANGED <<working, persisted>>
    /\ UNCHANGED <<args, cauldron, txOwner, beforeBegin, newVersion, composite,
                   current, handed, rethrown, runs>>
    /\ UNCHANGED <<published, addVars, upgVars>>

\* lines 208-213: the yarn.lock of this run's Composite
AddOrUpdateYarnLock ==
    /\ pc = "addOrUpdateYarnLock"
    /\ \/ /\ StoreWrite([working EXCEPT !.yarnLock = runs])
          /\ Called("addOrUpdateYarnLock", "transformers")
          /\ UNCHANGED thrown
       \/ /\ Throw("addOrUpdateYarnLock")
          /\ UNCHANGED <<working, persisted>>
    /\ UNCHANGED <<args, cauldron, txOwner, beforeBegin, newVersion, composite,
                   current, handed, rethrown, runs>>
    /\ UNCHANGED <<published, addVars, upgVars>>

\* line 215
RunContainerTransformers ==
    /\ pc = "transformers"
    /\ \/ /\ Called("runContainerTransformers", "commitTransaction")
          /\ UNCHANGED thrown
       \/ Throw("runContainerTransformers")
    /\ UNCHANGED <<args, cauldron, persisted, working, txOwner, beforeBegin,
                   newVersion, composite, current, handed, rethrown, runs>>
    /\ UNCHANGED <<published, addVars, upgVars>>

\* lines 218-224: a failed commit leaves the transaction open
CommitTransaction ==
    /\ pc = "commitTransaction"
    /\ \/ /\ persisted' = working
          /\ txOwner' = "none"
          /\ Called("commitTransaction", "publish")
          /\ UNCHANGED thrown
       \/ /\ Throw("commitTransaction")
          /\ UNCHANGED <<persisted, txOwner>>
    /\ UNCHANGED <<args, cauldron, working, beforeBegin, newVersion, composite,
                   current, handed, rethrown, runs>>
    /\ UNCHANGED <<published, addVars, upgVars>>

\* cauldron.discardTransaction(): drops the working copy, back to Idle
DiscardTransaction ==
    /\ txOwner' = "none"
    /\ working' = persisted
    /\ calls' = Append(calls, "discardTransaction")

NoDiscard ==
    UNCHANGED <<txOwner, working, calls>>

CatchWithoutDiscard ==
    /\ pc = "catch"
    /\ NoDiscard
    /\ rethrown' = thrown
    /\ pc' = "failed"
    /\ UNCHANGED <<args, cauldron, persisted, beforeBegin, newVersion, composite,
                   current, handed, thrown, runs>>
    /\ UNCHANGED <<published, addVars, upgVars>>

CatchSwallowingError ==
    /\ pc = "catch"
    /\ IF cauldron THEN DiscardTransaction ELSE NoDiscard
    /\ pc' = "publish"
    /\ UNCHANGED <<args, cauldron, persisted, beforeBegin, newVersion, composite,
                   current, handed, thrown, rethrown, runs>>
    /\ UNCHANGED <<published, addVars, upgVars>>

\* lines 225-231
Catch ==
    /\ pc = "catch"
    /\ IF cauldron THEN DiscardTransaction ELSE NoDiscard
    /\ rethrown' = thrown
    /\ pc' = "failed"
    /\ UNCHANGED <<args, cauldron, persisted, beforeBegin, newVersion, composite,
                   current, handed, thrown, runs>>
    /\ UNCHANGED <<published, addVars, upgVars>>

\* lines 233-237
RunContainerPublishers ==
    /\ pc = "publish"
    /\ published' = newVersion
    /\ \/ /\ Called("runContainerPublishers", "done")
          /\ UNCHANGED rethrown
       \/ /\ Called("runContainerPublishers", "failed")
          /\ rethrown' = "runContainerPublishers"
    /\ UNCHANGED <<args, cauldron, persisted, working, txOwner, beforeBegin,
                   newVersion, composite, current, handed, thrown, runs>>
    /\ UNCHANGED <<addVars, upgVars>>

\* the command returns; a later command may invoke the workflow again
Return ==
    /\ pc \in {"done", "failed"}
    /\ pc' = "idle"
    /\ args' = NoArgs
    /\ cauldron' = FALSE
    /\ newVersion' = NoVersion
    /\ composite' = <<>>
    /\ current' = <<>>
    /\ handed' = <<>>
    /\ calls' = <<>>
    /\ thrown' = "none"
    /\ rethrown' = "none"
    /\ beforeBegin' = persisted
    /\ published' = NoVersion
    /\ UNCHANGED <<persisted, working, txOwner, runs>>
    /\ UNCHANGED <<addVars, upgVars>>

SyncInitFrom(records) ==
    /\ pc = "idle"
    /\ args = NoArgs
    /\ cauldron = FALSE
    /\ persisted \in records
    /\ txOwner \in {"none", "other"}
    \* another workflow's open transaction holds a buffered state change
    /\ working = IF txOwner = "other"
                   THEN [persisted EXCEPT !.stateRev = -1] ELSE persisted
    /\ beforeBegin = persisted
    /\ newVersion = NoVersion
    /\ composite = <<>>
    /\ current = <<>>
    /\ handed = <<>>
    /\ calls = <<>>
    /\ thrown = "none"
    /\ rethrown = "none"
    /\ runs = 0
    /\ published = NoVersion

SyncInit == SyncInitFrom(StoreRecords)

SyncNext ==
    \/ Invoke
    \/ GetActiveCauldron
    \/ SetContainerVersion
    \/ BeginTransaction
    \/ StateUpdate
    \/ GenerateComposite
    \/ SyncNativeDependencies
    \/ GenerateContainer
    \/ UpdateContainerVersion
    \/ UpdateContainerErnVersion
    \/ AddOrUpdateYarnLock
    \/ RunContainerTransformers
    \/ CommitTransaction
    \/ Catch
    \/ RunContainerPublishers
    \/ Return

----------------------------------------------------------------------------
\* PackagePath (ern-core); strings are sequences of characters

\* no PackagePath: null / undefined / void
NoPackage == [basePath |-> <<>>, version |-> <<>>]

PlainLib == <<"l", "i", "b">>
ScopedApi == <<"@", "s", "/", "a", "p", "i">>
MiniAppBasePaths == {PlainLib, ScopedApi}
PackageVersions == {<<"1">>, <<"2">>}

\* a PackagePath without version has version = <<>>
PackagePaths == [basePath : MiniAppBasePaths, version : PackageVersions \cup {NoVersion}]

\* PackagePath.toString(): `basePath@version`, or `basePath` without version
PackagePathToString(p) ==
    IF p.version = NoVersion THEN p.basePath ELSE p.basePath \o <<"@">> \o p.version

\* position of the last "@" that is not the leading one of a scope, 0 if none
RECURSIVE LastAt(_, _)
LastAt(str, i) ==
    IF i <= 1 THEN 0
    ELSE IF str[i] = "@" THEN i ELSE LastAt(str, i - 1)

\* PackagePath.fromString(): a registry path `[@scope/]name[@version]`
PackagePathFromString(str) ==
    LET at == LastAt(str, Len(str))
    IN  IF at = 0 \/ at = Len(str)
          THEN [basePath |-> str, version |-> NoVersion]
          ELSE [basePath |-> SubSeq(str, 1, at - 1),
                version |-> SubSeq(str, at + 1, Len(str))]

\* PackagePath.same(other, {ignoreVersion}): exact string equality
Same(a, b, ignoreVersion) ==
    /\ a.basePath = b.basePath
    /\ ignoreVersion \/ a.version = b.version

\* utils.isDependencyApiOrApiImpl(basePath)
IsDependencyApiOrApiImpl(basePath) == basePath = ScopedApi

----------------------------------------------------------------------------
\* Manifest and MiniApp.addDependency

\* a manifest list holds at most one entry per basePath
ManifestLists ==
    {m \in SUBSET PackagePaths :
        \A x, y \in m : x.basePath = y.basePath => x = y}

Lookup(list, basePath) ==
    IF \E p \in list : p.basePath = basePath
      THEN CHOOSE p \in list : p.basePath = basePath
      ELSE NoPackage

\* manifest.getNativeDependency / manifest.getJsDependency
GetNativeDependency(basePath) == Lookup(manifestNative, basePath)
GetJsDependency(basePath) == Lookup(manifestJs, basePath)

\* lines 297-303: the native entry, or failing that the JS entry
ManifestDependencyJsFirst(basePath) ==
    IF GetJsDependency(basePath) # NoPackage
      THEN GetJsDependency(basePath) ELSE GetNativeDependency(basePath)
ManifestDependency(basePath) ==
    IF GetNativeDependency(basePath) # NoPackage
      THEN GetNativeDependency(basePath) ELSE GetJsDependency(basePath)

\* lines 369-379: version match against the manifest
VersionCheckIgnoringVersion(dependency, manifestDependency) ==
    IF dependency.version # NoVersion
         /\ ~Same(dependency, manifestDependency, TRUE)
      THEN "versionMismatch" ELSE "none"
VersionCheck(dependency, manifestDependency) ==
    IF dependency.version # NoVersion
         /\ ~Same(dependency, manifestDependency, FALSE)
      THEN "versionMismatch" ELSE "none"

\* lines 331-365: the check of one entry of nativeDependencies.all
EntryCheckAllowingNative(dependency, dep) ==
    IF Same(dependency, [basePath |-> dep.basePath, version |-> NoVersion], TRUE)
      THEN "none"
      ELSE IF GetNativeDependency(dep.basePath) # NoPackage
                /\ ~Same(dep, GetNativeDependency(dep.basePath), FALSE)
             THEN "transitiveConflict"
             ELSE "none"
EntryCheckSkippingTransitive(dependency, dep) ==
    IF Same(dependency, [basePath |-> dep.basePath, version |-> NoVersion], TRUE)
         /\ ~IsDependencyApiOrApiImpl(dep.basePath)
      THEN "unsupportedNative"
      ELSE "none"
EntryCheck(dependency, dep) ==
    IF Same(dependency, [basePath |-> dep.basePath, version |-> NoVersion], TRUE)
      THEN IF IsDependencyApiOrApiImpl(dep.basePath)
             THEN "none"                    \* warn, allowed
             ELSE "unsupportedNative"       \* return log.error(...)
      ELSE IF GetNativeDependency(dep.basePath) # NoPackage
                /\ ~Same(dep, GetNativeDependency(dep.basePath), FALSE)
             THEN "transitiveConflict"      \* throw new Error(...)
             ELSE "none"

\* lines 320-367: the loop over nativeDependencies.all ends at the first
\* entry that returns or throws
RECURSIVE ProbeCheck(_, _)
ProbeCheck(dependency, all) ==
    IF all = <<>> THEN "none"
    ELSE IF EntryCheck(dependency, Head(all)) # "none"
           THEN EntryCheck(dependency, Head(all))
           ELSE ProbeCheck(dependency, Tail(all))

MaxScan == 2
MaxOps == 1

\* what a probe install can put under node_modules: installed versions
InstalledPackages == [basePath : MiniAppBasePaths, version : PackageVersions]

\* what findNativeDependencies can report as nativeDependencies.all
ScanLists == SeqsUpTo(InstalledPackages, MaxScan)

\* a yarn.add call: the package, the kind of dependency, the directory
StagedEntry(packagePath, kind, dir) ==
    [packagePath |-> packagePath, kind |-> kind, dir |-> dir]

\* lines 522-536
AddDevOrPeerDependency(dependency, dev) ==
    StagedEntry(PackagePathFromString(PackagePathToString(dependency)),
                IF dev THEN "dev" ELSE "peer", cwd)

\* lines 283-399 as a whole: the call (its arguments, whether the probe
\* install fails, what the scan reports) and its outcome
\*   error:    "none", or the failure
\*   how:      "returned" | "logged" (return log.error) | "thrown"
\*   returned: the PackagePath returned, NoPackage for void
\*   added:    the yarn.add calls made for the mini-app
\*   probed:   a temporary directory was created and installed into
\*   dir:      the working directory the call leaves the process in
AddDependencyOutcome(dependency, dev, peer, probeFails, all) ==
    LET md == ManifestDependency(dependency.basePath)
        outcome(error, how, returned, added, probed, dir) ==
            [dependency |-> dependency, dev |-> dev, peer |-> peer,
             probeFails |-> probeFails, all |-> all,
             error |-> error, how |-> how, returned |-> returned,
             added |-> added, probed |-> probed, dir |-> dir]
        accept(probed) ==
            outcome("none", "returned",
                    IF md # NoPackage THEN md ELSE dependency,
                    <<StagedEntry(IF md # NoPackage THEN md
                                    ELSE PackagePathFromString(PackagePathToString(dependency)),
                                  "dependency", "miniapp")>>,
                    probed, "miniapp")
    IN  IF dependency = NoPackage
          THEN outcome("nullDependency", "logged", NoPackage, <<>>, FALSE, cwd)
        ELSE IF dev \/ peer
          THEN outcome("none", "returned", NoPackage,
                       <<AddDevOrPeerDependency(dependency, dev)>>, FALSE, cwd)
        ELSE IF md = NoPackage
          THEN IF probeFails
                 THEN outcome("probeFailed", "thrown", NoPackage, <<>>, TRUE, "tmp")
               ELSE LET check == ProbeCheck(dependency, all)
                    IN  IF check = "unsupportedNative"
                          THEN outcome(check, "logged", NoPackage, <<>>, TRUE, "tmp")
                        ELSE IF check = "transitiveConflict"
                          THEN outcome(check, "thrown", NoPackage, <<>>, TRUE, "tmp")
                        ELSE accept(TRUE)
        ELSE IF VersionCheck(dependency, md) # "none"
          THEN outcome("versionMismatch", "thrown", NoPackage, <<>>, FALSE, cwd)
        ELSE accept(FALSE)

NoCall ==
    [dependency |-> NoPackage, dev |-> FALSE, peer |-> FALSE,
     probeFails |-> FALSE, all |-> <<>>,
     error |-> "none", how |-> "none", returned |-> NoPackage,
     added |-> <<>>, probed |-> FALSE, dir |-> "miniapp"]

\* the candidate is one the manifest does not know: lines 305-319 run
Probing(dependency, dev, peer) ==
    /\ dependency # NoPackage
    /\ ~(dev \/ peer)
    /\ ManifestDependency(dependency.basePath) = NoPackage

\* one call of MiniApp.addDependency(dependency, {dev, peer}); the probe
\* install and its scan are consulted only for a candidate the manifest
\* does not know
AddDependency ==
    /\ ops < MaxOps
    /\ \E dependency \in PackagePaths \cup {NoPackage}, dev, peer \in BOOLEAN :
       \E probeFails \in IF Probing(dependency, dev, peer) THEN BOOLEAN ELSE {FALSE} :
       \E all \in IF Probing(dependency, dev, peer) /\ ~probeFails
                    THEN ScanLists ELSE {<<>>} :
        /\ last' = AddDependencyOutcome(dependency, dev, peer, probeFails, all)
        /\ staged' = staged \o last'.added
        /\ tmpDirs' = IF last'.probed THEN tmpDirs + 1 ELSE tmpDirs
        /\ cwd' = last'.dir
    /\ ops' = ops + 1
    /\ UNCHANGED <<manifestNative, manifestJs>>
    /\ UNCHANGED <<syncVars, upgVars>>

AddInit ==
    /\ manifestNative \in ManifestLists
    /\ manifestJs \in ManifestLists
    /\ staged = <<>>
    /\ tmpDirs = 0
    /\ cwd = "miniapp"
    /\ last = NoCall
    /\ ops = 0

----------------------------------------------------------------------------
\* MiniApp.upgradeToPlatformVersion

\* a value of packageJson.dependencies[key] is a version string; <<>> stands
\* for undefined. A lookup is truthy when the key holds a non-empty string.
Truthy(dependencies, key) ==
    key \in DOMAIN dependencies /\ dependencies[key] # NoVersion

\* dependencies[key] = value
SetKey(dependencies, key, value) ==
    [k \in DOMAIN dependencies \cup {key} |->
        IF k = key THEN value ELSE dependencies[k]]

\* lines 445-460: one iteration of the loop over the manifest dependencies
UpgradeOne(dependencies, manifestDependency) ==
    IF Truthy(dependencies, manifestDependency.basePath)
         /\ manifestDependency.version # dependencies[manifestDependency.basePath]
      THEN SetKey(dependencies, manifestDependency.basePath,
                  manifestDependency.version)
      ELSE dependencies

\* lines 444-461
RECURSIVE UpgradeDependencies(_, _)
UpgradeDependencies(dependencies, manifestDependencies) ==
    IF manifestDependencies = <<>> THEN dependencies
    ELSE UpgradeDependencies(UpgradeOne(dependencies, Head(manifestDependencies)),
                             Tail(manifestDependencies))

\* JSON.stringify(packageJson): a key whose value is undefined is left out
Stringify(pj) ==
    [pj EXCEPT !.dependencies =
        [k \in {x \in DOMAIN pj.dependencies : pj.dependencies[x] # NoVersion}
            |-> pj.dependencies[k]]]

PlatformVersions == {<<"1", "0">>, <<"1", "1">>}

\* manifest.getJsAndNativeDependencies(version): one entry per basePath
ManifestDependencyLists ==
    {l \in SeqsUpTo(PackagePaths, Cardinality(MiniAppBasePaths)) :
        UniqueByBasePath(l)}

\* package.json of a mini-app: its dependencies and its ern section
PackageJsons ==
    {[dependencies |-> d, ern |-> e, ernVersion |-> <<"1", "0">>] :
        d \in UNION {[keys -> PackageVersions] : keys \in SUBSET MiniAppBasePaths},
        e \in BOOLEAN}

NoUpgrade ==
    [versionToUpgradeTo |-> <<>>, manifestDependencies |-> <<>>,
     before |-> <<>>, diskBefore |-> <<>>, error |-> "notCalled"]

\* lines 436-482
UpgradeToPlatformVersion ==
    /\ upgrades < MaxOps
    /\ \E versionToUpgradeTo \in PlatformVersions,
          manifestDependencies \in ManifestDependencyLists :
        LET upgraded == UpgradeDependencies(packageJson.dependencies,
                                            manifestDependencies)
        IN  /\ upg' = [versionToUpgradeTo |-> versionToUpgradeTo,
                       manifestDependencies |-> manifestDependencies,
                       before |-> packageJson.dependencies,
                       diskBefore |-> diskPackageJson.dependencies,
                       error |-> IF packageJson.ern THEN "none" ELSE "noErnSection"]
            /\ IF ~packageJson.ern
                 THEN \* line 465: throw, after the loop has run
                      /\ packageJson' = [packageJson EXCEPT !.dependencies = upgraded]
                      /\ UNCHANGED <<diskPackageJson, installs, cwd>>
                 ELSE /\ packageJson' = [packageJson EXCEPT
                                            !.dependencies = upgraded,
                                            !.ernVersion = versionToUpgradeTo]
                      /\ diskPackageJson' = Stringify(packageJson')
                      /\ cwd' = "miniapp"
                      /\ installs' = installs + 1
    /\ upgrades' = upgrades + 1
    /\ UNCHANGED <<manifestNative, manifestJs, staged, tmpDirs, last, ops>>
    /\ UNCHANGED syncVars

UpgInit ==
    /\ packageJson \in PackageJsons
    /\ diskPackageJson = packageJson
    /\ installs = 0
    /\ upg = NoUpgrade
    /\ upgrades = 0

----------------------------------------------------------------------------
\* Idle states: each specification leaves the other operations untouched

AddIdle ==
    /\ manifestNative = {}
    /\ manifestJs = {}
    /\ staged = <<>>
    /\ tmpDirs = 0
    /\ cwd = "miniapp"
    /\ last = NoCall
    /\ ops = 0

UpgIdle ==
    /\ packageJson = [dependencies |-> <<>>, ern |-> TRUE,
                      ernVersion |-> <<"1", "0">>]
    /\ diskPackageJson = packageJson
    /\ installs = 0
    /\ upg = NoUpgrade
    /\ upgrades = 0

SyncIdle ==
    /\ pc = "idle"
    /\ args = NoArgs
    /\ cauldron = FALSE
    /\ persisted = [nativeDeps |-> <<>>,
                    containerVersion |-> DefaultContainerVersion,
                    topLevelContainerVersion |-> DefaultContainerVersion,
                    detachContainerVersionFromRoot |-> FALSE,
                    ernVersion |-> InitialErnVersion, yarnLock |-> 0,
                    stateRev |-> 0]
    /\ working = persisted
    /\ txOwner = "none"
    /\ beforeBegin = persisted
    /\ newVersion = NoVersion
    /\ composite = <<>>
    /\ current = <<>>
    /\ handed = <<>>
    /\ calls = <<>>
    /\ thrown = "none"
    /\ rethrown = "none"
    /\ runs = 0
    /\ published = NoVersion

\* the specifications of the two MiniApp operations
AddSpecInit == AddInit /\ SyncIdle /\ UpgIdle

AddNext == AddDependency

AddSpec == AddSpecInit /\ [][AddNext]_vars

UpgradeSpecInit == UpgInit /\ SyncIdle /\ AddIdle

UpgradeNext == UpgradeToPlatformVersion

UpgradeSpec == UpgradeSpecInit /\ [][UpgradeNext]_vars

\* the specification of the sync workflow
Init == SyncInit /\ AddIdle /\ UpgIdle

Next == SyncNext

Spec == Init /\ [][Next]_vars

\* the sync workflow over stores that differ in their container versions
VersionSpecInit == SyncInitFrom(VersionedStoreRecords) /\ AddIdle /\ UpgIdle

VersionNext == SyncNext

VersionSpec == VersionSpecInit /\ [][VersionNext]_vars

----------------------------------------------------------------------------
\* Claims about syncCauldronContainer

\* the run has passed line 186: the merged list was handed to the store
HandedToStore ==
    /\ \E i \in 1..Len(calls) : calls[i] = "syncContainerNativeDependencies"
    /\ thrown # "syncContainerNativeDependencies"

\* C1: the list handed to syncContainerNativeDependencies has exactly the
\* members discovered \cup {c in current : no d in discovered has
\* c.basePath = d.basePath}; stored entries that were not re-discovered are
\* carried forward, a re-discovered basePath keeps only discovered entries.
C1_HandedList ==
    HandedToStore =>
        /\ Range(handed) =
             Range(composite) \cup
               {c \in Range(current) :
                   \A d \in Range(composite) : d.basePath # c.basePath}
        /\ \A x \in Range(handed) :
             (\E d \in Range(composite) : d.basePath = x.basePath)
                 => x \in Range(composite)

\* store {A, B}, discovered {B', C}: the list {A, B', C} is handed over
C1_Witness ==
    /\ HandedToStore
    /\ current = <<[basePath |-> "A", version |-> "1"],
                   [basePath |-> "B", version |-> "1"]>>
    /\ composite = <<[basePath |-> "B", version |-> "2"],
                     [basePath |-> "C", version |-> "1"]>>
    /\ handed = <<[basePath |-> "A", version |-> "1"],
                  [basePath |-> "B", version |-> "2"],
                  [basePath |-> "C", version |-> "1"]>>

StepsInTransaction ==
    {"stateUpdateFunc", "getCompositeGeneratorConfig", "runCauldronCompositeGen",
     "getNativeDependencies", "getResolvedNativeDependencies",
     "syncContainerNativeDependencies", "runCauldronContainerGen",
     "updateContainerVersion", "updateContainerErnVersion",
     "addOrUpdateYarnLock", "runContainerTransformers", "commitTransaction"}

\* C8: an error raised by a step after beginTransaction, up to and including
\* commitTransaction, has not propagated before discardTransaction is
\* called; once it has propagated, discardTransaction was the last call made
\* and the error that propagates is the error that was raised.
C8_DiscardBeforeRethrow ==
    thrown \in StepsInTransaction =>
        /\ pc = "catch" => rethrown = "none"
        /\ pc = "failed" =>
              /\ calls # <<>>
              /\ calls[Len(calls)] = "discardTransaction"
              /\ \E i \in 1..Len(calls) : calls[i] = "beginTransaction"
              /\ rethrown = thrown

\* commitTransaction itself threw, the transaction was discarded
C8_Witness ==
    /\ pc = "failed"
    /\ thrown = "commitTransaction"
    /\ rethrown = "commitTransaction"
    /\ calls[Len(calls)] = "discardTransaction"

\* C9: when the workflow has failed and discarded its transaction, the
\* persisted content is the content before beginTransaction; persisted
\* content differs from it only once commitTransaction has succeeded, and
\* is then the complete working copy.
C9_Atomicity ==
    /\ (pc = "failed" /\ thrown # "none") => persisted = beforeBegin
    /\ pc \notin {"idle", "publish", "done", "failed"} => persisted = beforeBegin
    /\ persisted # beforeBegin =>
          /\ thrown = "none"
          /\ persisted = working
          /\ calls # <<>>
          /\ \E i \in 1..Len(calls) : calls[i] = "commitTransaction"

\* commit threw after all four mutations were buffered; nothing persisted
C9_Witness ==
    /\ pc = "failed"
    /\ thrown = "commitTransaction"
    /\ calls[Len(calls)] = "discardTransaction"
    /\ handed # beforeBegin.nativeDeps
    /\ persisted = beforeBegin
    /\ working = persisted

\* the step of the try block named `call` has returned in the current run
Returned(call) ==
    /\ \E i \in 1..Len(calls) : calls[i] = call
    /\ thrown # call

\* the current version of the store as the run read it: the application
\* version's own when detachContainerVersionFromRoot is set, else the
\* top-level one
CurrentContainerVersion ==
    IF beforeBegin.detachContainerVersionFromRoot
      THEN beforeBegin.containerVersion
      ELSE beforeBegin.topLevelContainerVersion

\* the new version is what updateContainerVersion records, what a commit
\* makes durable and what the publishers are handed
SameVersionThroughout ==
    /\ (Returned("updateContainerVersion") /\ thrown = "none")
          => working.containerVersion = newVersion
    /\ Returned("commitTransaction") => persisted.containerVersion = newVersion
    /\ Returned("runContainerPublishers") => published = newVersion

\* C12 as stated: the new container version is the pinned containerVersion
\* when one is given; otherwise the current version of the store with its
\* patch component incremented by exactly one; otherwise 1.0.0 when the
\* store has no current version. The same value goes to
\* updateContainerVersion and to the publishers.
C12_PatchAlwaysBumped ==
    Returned("setVersion") =>
        /\ args.containerVersion # NoVersion => newVersion = args.containerVersion
        /\ (args.containerVersion = NoVersion /\ CurrentContainerVersion # NoVersion)
              => /\ newVersion[1] = CurrentContainerVersion[1]
                 /\ newVersion[2] = CurrentContainerVersion[2]
                 /\ newVersion[3] = CurrentContainerVersion[3] + 1
        /\ (args.containerVersion = NoVersion /\ CurrentContainerVersion = NoVersion)
              => newVersion = DefaultContainerVersion
        /\ SameVersionThroughout

\* C12, amended: as above, but the patch component is incremented by one
\* only when the current version is a release version; from a prerelease
\* version the new version is the release with the same
\* major.minor.patch.
C12_ContainerVersion ==
    Returned("setVersion") =>
        /\ args.containerVersion # NoVersion => newVersion = args.containerVersion
        /\ (args.containerVersion = NoVersion /\ CurrentContainerVersion # NoVersion)
              => /\ newVersion[1] = CurrentContainerVersion[1]
                 /\ newVersion[2] = CurrentContainerVersion[2]
                 /\ newVersion[4] = Release
                 /\ newVersion[3] = IF CurrentContainerVersion[4] = Release
                                      THEN CurrentContainerVersion[3] + 1
                                      ELSE CurrentContainerVersion[3]
        /\ (args.containerVersion = NoVersion /\ CurrentContainerVersion = NoVersion)
              => newVersion = DefaultContainerVersion
        /\ SameVersionThroughout

\* a run without a pinned version on a store detached from the root, whose
\* own container version is a prerelease and differs from the top-level
\* one, has committed and published
C12_Witness ==
    /\ pc = "done"
    /\ args.containerVersion = NoVersion
    /\ beforeBegin.detachContainerVersionFromRoot
    /\ beforeBegin.containerVersion = PrereleaseVersion
    /\ beforeBegin.topLevelContainerVersion = DefaultContainerVersion
    /\ newVersion = <<1, 0, 1, Release>>
    /\ persisted.containerVersion = newVersion
    /\ published = newVersion

\* C13: a run never discards a transaction it did not open: while another
\* workflow holds the open transaction, no step of syncCauldronContainer
\* (in particular not its catch block, after a failed store lookup or a
\* refused beginTransaction) closes that transaction or changes the
\* mutations buffered in it.
C13_ForeignTransactionKept ==
    [][txOwner = "other" => (txOwner' = "other" /\ working' = working)]_vars

\* the calls that mutate the store
StoreMutations ==
    {"stateUpdateFunc", "syncContainerNativeDependencies",
     "updateContainerVersion", "updateContainerErnVersion",
     "addOrUpdateYarnLock"}

\* the calls of a run up to commitTransaction when every step succeeds
StepsBeforeCommit ==
    <<"getActiveCauldron", "setVersion", "beginTransaction", "stateUpdateFunc",
      "runCauldronCompositeGen", "syncContainerNativeDependencies",
      "runCauldronContainerGen", "updateContainerVersion",
      "updateContainerErnVersion", "addOrUpdateYarnLock",
      "runContainerTransformers">>

\* C14: in every run begin < mutations < commit < publish: a mutation of the
\* store is invoked only after beginTransaction has returned and before
\* commitTransaction is invoked; commitTransaction is invoked at most once
\* and only after every earlier step has succeeded; runContainerPublishers
\* is invoked only directly after a commitTransaction that succeeded, and
\* never in a run that called discardTransaction.
C14_CallOrder ==
    \A i \in 1..Len(calls) :
        /\ calls[i] \in StoreMutations =>
              /\ \E j \in 1..(i - 1) : calls[j] = "beginTransaction"
              /\ thrown # "beginTransaction"
              /\ \A k \in 1..i : calls[k] # "commitTransaction"
        /\ calls[i] = "commitTransaction" =>
              /\ SubSeq(calls, 1, i - 1) = StepsBeforeCommit
              /\ \A k \in 1..Len(calls) : calls[k] = "commitTransaction" => k = i
              /\ thrown \in {"none", "commitTransaction"}
        /\ calls[i] = "runContainerPublishers" =>
              /\ i > 1
              /\ calls[i - 1] = "commitTransaction"
              /\ thrown = "none"
              /\ \A k \in 1..Len(calls) : calls[k] # "discardTransaction"

\* a run in which every step succeeded: begin, the five mutations, commit,
\* then the publishers
C14_Witness ==
    /\ pc = "done"
    /\ calls = StepsBeforeCommit \o <<"commitTransaction", "runContainerPublishers">>
    /\ txOwner = "none"
    /\ persisted = working

----------------------------------------------------------------------------
\* Claims about MiniApp.addDependency

\* a call was made with a dependency, neither dev nor peer
CheckedCall ==
    /\ last.how # "none"
    /\ last.dependency # NoPackage
    /\ ~last.dev
    /\ ~last.peer

\* the manifest's entry for the candidate: native first, else JS
InNativeManifest(basePath) == \E p \in manifestNative : p.basePath = basePath
InJsManifest(basePath) == \E p \in manifestJs : p.basePath = basePath
ManifestKnown(basePath) == InNativeManifest(basePath) \/ InJsManifest(basePath)
ManifestEntries(basePath) ==
    IF InNativeManifest(basePath)
      THEN {p \in manifestNative : p.basePath = basePath}
      ELSE {p \in manifestJs : p.basePath = basePath}

\* the call accepted the candidate: exactly `p` was added to the mini-app as
\* a dependency, and `r` was returned
Accepted(p, r) ==
    /\ last.error = "none"
    /\ last.how = "returned"
    /\ last.added = <<[packagePath |-> p, kind |-> "dependency", dir |-> "miniapp"]>>
    /\ staged # <<>>
    /\ staged[Len(staged)] = last.added[1]
    /\ last.returned = r

\* C3: for a non-dev, non-peer candidate without explicit version whose
\* basePath is in the manifest, addDependency stages and returns the
\* manifest's entry, the native entry winning over the JS entry.
C3_ManifestVersionWins ==
    (CheckedCall /\ last.dependency.version = NoVersion
                 /\ ManifestKnown(last.dependency.basePath)) =>
        \A e \in ManifestEntries(last.dependency.basePath) : Accepted(e, e)

\* native and JS manifests both know the candidate, at different versions
C3_Witness ==
    /\ CheckedCall
    /\ last.dependency = [basePath |-> PlainLib, version |-> NoVersion]
    /\ [basePath |-> PlainLib, version |-> <<"2">>] \in manifestNative
    /\ [basePath |-> PlainLib, version |-> <<"1">>] \in manifestJs
    /\ last.returned = [basePath |-> PlainLib, version |-> <<"2">>]
    /\ Len(staged) = 1

\* C4: for a manifest-known candidate with an explicit version: equal to
\* the manifest's version, addDependency succeeds and returns the candidate
\* unchanged; different (as strings), it fails with a version mismatch and
\* nothing is staged.
C4_ExplicitVersion ==
    (CheckedCall /\ last.dependency.version # NoVersion
                 /\ ManifestKnown(last.dependency.basePath)) =>
        \A e \in ManifestEntries(last.dependency.basePath) :
            IF e.version = last.dependency.version
              THEN Accepted(last.dependency, last.dependency)
              ELSE /\ last.error = "versionMismatch"
                   /\ last.how = "thrown"
                   /\ last.added = <<>>
                   /\ last.returned = NoPackage

\* the candidate asks for version 1, the manifest holds version 2
C4_Witness ==
    /\ CheckedCall
    /\ last.dependency = [basePath |-> PlainLib, version |-> <<"1">>]
    /\ [basePath |-> PlainLib, version |-> <<"2">>] \in manifestNative
    /\ last.error = "versionMismatch"
    /\ staged = <<>>

\* the candidate is absent from the manifest and its probe was scanned
ProbedCall ==
    /\ CheckedCall
    /\ ~ManifestKnown(last.dependency.basePath)
    /\ ~last.probeFails

\* entry i of the scan is the candidate itself, native and not api/api-impl
SelfNative(i) ==
    /\ last.all[i].basePath = last.dependency.basePath
    /\ ~IsDependencyApiOrApiImpl(last.all[i].basePath)

\* entry i of the scan is a transitive native dependency whose installed
\* version differs from the version the manifest holds for its basePath
TransitiveConflict(i) ==
    /\ last.all[i].basePath # last.dependency.basePath
    /\ \E m \in manifestNative :
          m.basePath = last.all[i].basePath /\ m.version # last.all[i].version

Indices == 1..Len(last.all)

C6_EveryTransitiveChecked ==
    ProbedCall =>
        /\ (\E j \in Indices : TransitiveConflict(j)) =>
              /\ last.error = "transitiveConflict"
              /\ last.added = <<>>
        /\ (\A j \in Indices : ~TransitiveConflict(j)) =>
              last.error # "transitiveConflict"

\* C6 amended: a conflicting transitive dependency always keeps the
\* candidate from being staged; the failure is the transitive-conflict error
\* unless the candidate's own entry (native, not api/api-impl) precedes every
\* conflicting entry in the scan, and then the unsupported-native error.
\* Without a conflicting entry there is no transitive-conflict failure.
C6_TransitiveConflict ==
    ProbedCall =>
        /\ (\E j \in Indices : TransitiveConflict(j)) =>
              /\ last.added = <<>>
              /\ last.returned = NoPackage
              /\ last.error \in {"transitiveConflict", "unsupportedNative"}
              /\ last.error = "unsupportedNative" <=>
                    \E i \in Indices :
                        /\ SelfNative(i)
                        /\ \A j \in 1..i : ~TransitiveConflict(j)
        /\ (\A j \in Indices : ~TransitiveConflict(j)) =>
              /\ last.error # "transitiveConflict"
              /\ (\A i \in Indices : ~SelfNative(i)) =>
                    Accepted(PackagePathFromString(PackagePathToString(last.dependency)),
                             last.dependency)

\* an api candidate, allowed itself, pulls in a native dependency at a
\* version other than the manifest's
C6_Witness ==
    /\ ProbedCall
    /\ last.dependency.basePath = ScopedApi
    /\ Len(last.all) = 2
    /\ last.all[1].basePath = ScopedApi
    /\ TransitiveConflict(2)
    /\ last.error = "transitiveConflict"
    /\ last.how = "thrown"
    /\ staged = <<>>

\* C7: every accepting path of addDependency stages exactly one PackagePath
\* into the mini-app and returns that same PackagePath to the caller.
C7_StagedIsReturned ==
    (last.how = "returned" /\ last.error = "none") =>
        /\ Len(last.added) = 1
        /\ last.added[1].dir = "miniapp"
        /\ last.returned = last.added[1].packagePath

\* C11: whichever way a call of addDependency ends (acceptance, rejection of
\* an unsupported native dependency, transitive-conflict error, failed probe
\* install or scan), no temporary directory the call created for its probe
\* is left on disk.
C11_TmpDirsCleanedUp ==
    last.how \in {"returned", "logged", "thrown"} => tmpDirs = 0

----------------------------------------------------------------------------
\* Claims about MiniApp.upgradeToPlatformVersion

\* the keys the mini-app holds a dependency for, as line 445 looks them up
RecordedKeys(dependencies) == {k \in DOMAIN dependencies : Truthy(dependencies, k)}

\* C10: upgradeToPlatformVersion never adds or removes a dependency: the
\* keys of the recorded dependencies, in this.packageJson and in package.json
\* on disk, are the same before and after; a key among the manifest
\* dependencies ends with the manifest's version, every other key keeps its
\* version.
C10_KeysKept ==
    upg.error = "none" =>
        /\ RecordedKeys(packageJson.dependencies) = RecordedKeys(upg.before)
        /\ DOMAIN diskPackageJson.dependencies = DOMAIN upg.diskBefore
        /\ \A k \in RecordedKeys(upg.before) \cap DOMAIN packageJson.dependencies :
              /\ \A m \in Range(upg.manifestDependencies) :
                    m.basePath = k => packageJson.dependencies[k] = m.version
              /\ (\A m \in Range(upg.manifestDependencies) : m.basePath # k)
                    => packageJson.dependencies[k] = upg.before[k]

\* C15: when the package descriptor has no `ern` section,
\* upgradeToPlatformVersion fails and leaves the recorded dependency
\* versions as they were, in this.packageJson and in package.json on disk,
\* and does not run the install step.
C15_NoErnNoChange ==
    upg.error = "noErnSection" =>
        /\ packageJson.dependencies = upg.before
        /\ diskPackageJson.dependencies = upg.diskBefore
        /\ installs = 0

====
